---------------------------- MODULE Spec2Model ----------------------------
(***************************************************************************)
(* A model of no_more_bad_chess_moves:                                     *)
(*   - analyse_games.py: score interpretation, move classification,        *)
(*     comment building, the per-ply analysis loop and the batch driver    *)
(*     that harvests blunder positions into a pool;                        *)
(*   - no_more_bad_chess_moves.py: the practice session (ChessModel and    *)
(*     ChessController) that samples positions from the pool and records   *)
(*     the outcome of each attempt.                                        *)
(*                                                                         *)
(* Scores are integers in centipawns.  The source keeps its thresholds in  *)
(* pawns (-0.8, -1.7, -2.8); analyse_games.py multiplies them by -100      *)
(* before comparing, so the model keeps them in centipawns throughout.     *)
(* Strings are sequences of tokens; a blank is always a token of its own.  *)
(***************************************************************************)
EXTENDS Integers, Sequences, FiniteSets

VARIABLES
    call,            \* the latest call of a pure function: its inputs and its result
    pc,              \* analyse_games.main: "read" | "ply" | "written" | "raised"
    count,           \* main: count
    df_positions,    \* main/analyse_pgn: the harvested pool (rows in order)
    annotated_games, \* main: one entry per analysed game
    game,            \* analyse_pgn: headers of the game being analysed
    board,           \* analyse_pgn: board (the moves pushed so far)
    info_before,     \* analyse_pgn: info_before
    plies,           \* analyse_pgn: what was attached to each mainline node so far
    queries,         \* analyse_pgn: the engine.analyse calls made for the game so far
    positions,       \* ChessModel.positions (rows in order)
    position,        \* ChessModel.position
    sboard,          \* ChessModel.board
    timer_start,     \* ChessModel._timer_start
    now,             \* the wall clock read by time.time()
    result_recorded, \* ChessController.result_recorded
    last_result,     \* the latest record_result call: its arguments; flip tells calls apart
    selected_square, \* ChessView.selected_square
    log              \* ChessView.log_text: its last line, the tag of its last "Your move" line

fnVars   == <<call>>
pipeVars == <<pc, count, df_positions, annotated_games, game, board, info_before, plies,
              queries>>
sessVars == <<positions, position, sboard, timer_start, now, result_recorded, last_result,
              selected_square, log>>
vars     == <<call, pc, count, df_positions, annotated_games, game, board, info_before,
              plies, queries, positions, position, sboard, timer_start, now, result_recorded,
              last_result, selected_square, log>>

-----------------------------------------------------------------------------
(* Program constants *)

INACCURACY_THRESHOLD == -80
MISTAKE_THRESHOLD == -170
BLUNDER_THRESHOLD == -280
MATE_CP == 10000
DEFAULT_TIME_TO_COMPLETE == 300
HARVEST_TIME_TO_COMPLETE == 300
NUM_GAMES_TO_ANALYSE == 100
PV_LENGTH == 8

(* Bounds of the model *)

Eps == 1          \* drops are drawn within Eps of every threshold
MaxMate == 2      \* mate distances the oracle reports: -MaxMate..MaxMate
NumMoves == 2     \* moves available in a position
MaxPlies == 2     \* mainline plies of a game
MaxGames == 2     \* games in the input file
MaxClock == 1     \* wall-clock readings 0..MaxClock
MaxPool == 2      \* rows of the pool loaded by a practice session
MaxPushed == 3    \* moves pushed on the practice board after a presentation

WHITE == TRUE
BLACK == FALSE
None == "None"
Moves == 1..NumMoves

Abs(x) == IF x < 0 THEN -x ELSE x

-----------------------------------------------------------------------------
(* Engine scores (python-chess Cp, Mate, MateGiven) as the code uses them *)

Cp(v) == [kind |-> "cp", v |-> v]
Mate(n) == [kind |-> "mate", v |-> n]
MateGiven == [kind |-> "mategiven", v |-> 0]

\* Score.__neg__: -Cp(v) = Cp(-v); -Mate(n) = Mate(-n), but -Mate(0) = MateGiven
Neg(s) ==
    CASE s.kind = "cp" -> Cp(-s.v)
      [] s.kind = "mate" -> IF s.v = 0 THEN MateGiven ELSE Mate(-s.v)
      [] s.kind = "mategiven" -> Mate(0)

\* info["score"].white(): the side-to-move-relative score turned to White's view
WhiteScore(info) == IF info.turn = WHITE THEN info.score ELSE Neg(info.score)

is_mate(s) == s.kind # "cp"

\* Score.mate(): the signed distance; 0 for Mate(0) and for MateGiven
mate(s) == s.v

\* A token of a string: its text and, where the text renders a number, the number
Tok(t) == [t |-> t, n |-> 0]
Sp == Tok(" ")

\* f"#{score.mate()}" and f"{cp/100:.2f}", one token each
EvalStr(s) == IF is_mate(s) THEN [t |-> "#", n |-> mate(s)] ELSE [t |-> "eval", n |-> s.v]

get_eval_and_score(info) ==
    LET score == WhiteScore(info)
    IN  IF is_mate(score)
        THEN [cp |-> IF mate(score) > 0 THEN MATE_CP ELSE -MATE_CP,
              eval_str |-> EvalStr(score)]
        ELSE [cp |-> score.v, eval_str |-> EvalStr(score)]

-----------------------------------------------------------------------------
(* Boards: the moves pushed from the starting position *)

Turn(b) == IF Len(b) % 2 = 0 THEN WHITE ELSE BLACK
FullmoveNumber(b) == (Len(b) \div 2) + 1
Push(b, mv) == Append(b, mv)

\* board.fen(): placement, side to move and move counters, all fixed by the moves pushed
Fen(b) == [moves |-> b, turn |-> Turn(b), fullmove |-> FullmoveNumber(b)]

\* board.san(mv) and board.parse_san(san)
San(b, mv) == [t |-> "san", n |-> mv]
parse_san(b, san) == san.n

Min(a, b) == IF a < b THEN a ELSE b

get_best_line_sans(info, b) ==
    LET n == Min(Len(info.pv), PV_LENGTH)
    IN  [i \in 1..n |-> San(SubSeq(info.pv, 1, i - 1), info.pv[i])]

-----------------------------------------------------------------------------
(* Move classification, analyse_games.py *)

OnlyMoveLabel == <<Tok("Only move."), Sp>>
MissLabel == <<Tok("Miss."), Sp>>
BestMoveLabel == <<Tok("Best move."), Sp>>
BlunderLabel == <<Tok("Blunder."), Sp>>
MistakeLabel == <<Tok("Mistake."), Sp>>
InaccuracyLabel == <<Tok("Inaccuracy."), Sp>>

\* multi: the list engine.analyse(..., multipv=2) returns, best first for the mover
detect_miss_or_only(multi, move) ==
    IF Len(multi) > 1
    THEN LET best_mv == multi[1].pv[1]
             best_cp == get_eval_and_score(multi[1]).cp
             second_cp == get_eval_and_score(multi[2]).cp
             diff == best_cp - second_cp
         IN  IF diff > -BLUNDER_THRESHOLD
             THEN IF move = best_mv THEN OnlyMoveLabel ELSE MissLabel
             ELSE <<>>
    ELSE <<>>

\* (mutant) the thresholds compared with >= instead of >
SeverityInclusive(prev_cp, curr_cp) ==
    LET diff == Abs(prev_cp - curr_cp)
    IN  IF diff >= -BLUNDER_THRESHOLD
        THEN [nags |-> {"NAG_BLUNDER"}, label |-> BlunderLabel]
        ELSE IF diff >= -MISTAKE_THRESHOLD
        THEN [nags |-> {"NAG_MISTAKE"}, label |-> MistakeLabel]
        ELSE IF diff >= -INACCURACY_THRESHOLD
        THEN [nags |-> {"NAG_DUBIOUS_MOVE"}, label |-> InaccuracyLabel]
        ELSE [nags |-> {}, label |-> <<>>]

\* The centipawn-based part of classify_move: the NAGs and the severity label
Severity(prev_cp, curr_cp) ==
    LET diff == Abs(prev_cp - curr_cp)
    IN  IF diff > -BLUNDER_THRESHOLD
        THEN [nags |-> {"NAG_BLUNDER"}, label |-> BlunderLabel]
        ELSE IF diff > -MISTAKE_THRESHOLD
        THEN [nags |-> {"NAG_MISTAKE"}, label |-> MistakeLabel]
        ELSE IF diff > -INACCURACY_THRESHOLD
        THEN [nags |-> {"NAG_DUBIOUS_MOVE"}, label |-> InaccuracyLabel]
        ELSE [nags |-> {}, label |-> <<>>]

classify_move(prev_cp, curr_cp, move, best_sans, b, multi) ==
    LET special == detect_miss_or_only(multi, move)
        best == IF best_sans # <<>> /\ move = parse_san(b, best_sans[1])
                THEN BestMoveLabel ELSE <<>>
        sev == Severity(prev_cp, curr_cp)
    IN  [nags |-> sev.nags, label |-> special \o best \o sev.label]

(* Move classification, no_more_bad_chess_moves.py: diff in centipawns *)

\* (mutant) the colour of the mover ignored: val = diff
ModelClassifyMoveColourBlind(is_white_to_move, diff) ==
    IF diff >= INACCURACY_THRESHOLD THEN "Good"
    ELSE IF diff >= MISTAKE_THRESHOLD THEN "Inaccuracy"
    ELSE IF diff >= BLUNDER_THRESHOLD THEN "Mistake"
    ELSE "Blunder"

ModelClassifyMove(is_white_to_move, diff) ==
    LET val == IF is_white_to_move THEN diff ELSE -diff
    IN  IF val >= INACCURACY_THRESHOLD THEN "Good"
        ELSE IF val >= MISTAKE_THRESHOLD THEN "Inaccuracy"
        ELSE IF val >= BLUNDER_THRESHOLD THEN "Mistake"
        ELSE "Blunder"

-----------------------------------------------------------------------------
(* Comments, analyse_games.py *)

EvalOpen == Tok("[%eval")
Close == Tok("]")

\* str.strip(): drop the leading and the trailing blanks
RECURSIVE LStrip(_)
LStrip(s) == IF s # <<>> /\ Head(s) = Sp THEN LStrip(Tail(s)) ELSE s
RECURSIVE RStrip(_)
RStrip(s) == IF s # <<>> /\ s[Len(s)] = Sp THEN RStrip(SubSeq(s, 1, Len(s) - 1)) ELSE s
Strip(s) == RStrip(LStrip(s))

\* The end of the match of \s*\[\%eval[^\]]*\] that starts at i, or 0 when none does
EvalMatchEnd(s, i) ==
    LET NonBlank == {j \in i..Len(s) : s[j] # Sp}
    IN  IF NonBlank = {} THEN 0
        ELSE LET j == CHOOSE x \in NonBlank : \A y \in NonBlank : x <= y
                 Closers == {k \in (j + 1)..Len(s) : s[k] = Close}
             IN  IF s[j] # EvalOpen \/ Closers = {} THEN 0
                 ELSE CHOOSE x \in Closers : \A y \in Closers : x <= y

\* re.sub(pattern, "", s): leftmost matches, left to right, never overlapping
RECURSIVE ReSubFrom(_, _)
ReSubFrom(s, i) ==
    IF i > Len(s) THEN <<>>
    ELSE LET e == EvalMatchEnd(s, i)
         IN  IF e = 0 THEN <<s[i]>> \o ReSubFrom(s, i + 1)
             ELSE ReSubFrom(s, e + 1)

strip_eval(comment) ==
    IF comment = <<>> THEN <<>> ELSE Strip(ReSubFrom(comment, 1))

MoveNo(n) == [t |-> "num.", n |-> n]
MoveNoBlack(n) == [t |-> "num...", n |-> n]

\* The "subsequent pairs" loop of format_variation_text
RECURSIVE VariationPairs(_, _, _)
VariationPairs(sans, idx, mvnum) ==
    IF idx > Len(sans) THEN <<>>
    ELSE IF idx + 1 <= Len(sans)
    THEN <<Sp, MoveNo(mvnum + 1), Sp, sans[idx], Sp, sans[idx + 1]>>
         \o VariationPairs(sans, idx + 2, mvnum + 1)
    ELSE <<Sp, MoveNo(mvnum + 1), Sp, sans[idx]>>
         \o VariationPairs(sans, idx + 1, mvnum + 1)

format_variation_text(sans, b) ==
    LET mvnum == FullmoveNumber(b)
    IN  IF Turn(b) = WHITE
        THEN IF Len(sans) >= 2
             THEN <<MoveNo(mvnum), Sp, sans[1], Sp, sans[2]>>
                  \o VariationPairs(sans, 3, mvnum)
             ELSE <<MoveNo(mvnum), Sp, sans[1]>> \o VariationPairs(sans, 2, mvnum)
        ELSE <<MoveNoBlack(mvnum), Sp, sans[1]>> \o VariationPairs(sans, 2, mvnum)

HasBestMove(label) == \E i \in 1..Len(label) : label[i] = Tok("Best move.")

EvalTag(curr_eval) == <<EvalOpen, Sp, curr_eval, Close>>

build_comment(existing, prev_eval, curr_eval, label, best_sans, temp_board) ==
    LET ex == strip_eval(existing)
    IN  IF label # <<>> /\ best_sans # <<>>
        THEN IF HasBestMove(label)
             THEN Strip(ex \o <<Sp>> \o label \o EvalTag(curr_eval))
             ELSE Strip(ex \o <<Sp, Tok("("), prev_eval, Sp, Tok("->"), Sp, curr_eval,
                                Tok(")"), Sp>>
                        \o label \o <<best_sans[1], Sp, Tok("was best."), Sp>>
                        \o EvalTag(curr_eval) \o <<Sp, Tok("(")>>
                        \o format_variation_text(best_sans, temp_board) \o <<Tok(")")>>)
        ELSE Strip(ex \o <<Sp>> \o EvalTag(curr_eval))

-----------------------------------------------------------------------------
(* The inputs the pure functions are applied to *)

\* Drops at, just below and just above every threshold of the code (80, 170, 280)
\* and every threshold of the specification (66, 100, 300), and around zero
Thresholds ==
    {0, -INACCURACY_THRESHOLD, -MISTAKE_THRESHOLD, -BLUNDER_THRESHOLD, 66, 100, 300}
Drops == {d \in UNION {(t - Eps)..(t + Eps) : t \in Thresholds} : d >= 0}
SignedDrops == Drops \cup {-d : d \in Drops}
PrevCps == {0, 100}

\* What the oracle reports for a position: a score relative to the side to move
MateDistances == (-MaxMate)..MaxMate
OracleScores ==
    {Cp(v) : v \in SignedDrops} \cup {Mate(n) : n \in MateDistances}
OracleInfos ==
    [score : OracleScores, turn : BOOLEAN, pv : {<<>>}]

\* The engine's order of scores for the side to move: a nearer mate for is better,
\* any mate for beats any centipawn score, a nearer mate against is worse
ScoreKey(s) ==
    IF s.kind = "cp" THEN s.v
    ELSE IF s.v > 0 THEN 10 * MATE_CP - s.v
    ELSE -10 * MATE_CP - s.v

\* engine.analyse(board, limit, multipv=2): one candidate when the position has one
\* legal move, else two with different first moves, best first for the side to move
MultiOver(scores, turn) ==
    {<<[score |-> s, turn |-> turn, pv |-> <<m>>]>> : s \in scores, m \in Moves}
    \cup
    {<<[score |-> s1, turn |-> turn, pv |-> <<m1>>],
       [score |-> s2, turn |-> turn, pv |-> <<m2>>]>> :
        <<s1, s2, m1, m2>> \in
            {q \in scores \X scores \X Moves \X Moves :
                ScoreKey(q[1]) >= ScoreKey(q[2]) /\ q[3] # q[4]}}

CandidateCps ==
    {120, 120 - BLUNDER_THRESHOLD, 120 - BLUNDER_THRESHOLD + Eps, 650}
CandidateScores ==
    {Cp(v) : v \in CandidateCps} \cup {Cp(-v) : v \in CandidateCps}
    \cup {Mate(n) : n \in MateDistances \ {0}}
ScenarioScores == {Cp(-650), Cp(-120), Cp(120), Cp(650)}

Boards == {<<>>, <<1>>}

\* Evaluations in White's view around a small advantage: about +0.5 and +0.9
\* pawns for either side
WinProbabilityCps == {54, -93, -54, 93}
BestLines == {<<>>} \cup {<<m>> : m \in Moves} \cup {<<m, 1>> : m \in Moves}
              \cup {<<m, 1, 1>> : m \in Moves}

SpecialLabels == {<<>>, OnlyMoveLabel, MissLabel}
SeverityLabels == {<<>>, InaccuracyLabel, MistakeLabel, BlunderLabel}
Labels ==
    {sp \o bm \o sv : sp \in SpecialLabels, bm \in {<<>>, BestMoveLabel},
                       sv \in SeverityLabels}
Evals == {EvalStr(Cp(20)), EvalStr(Mate(1))}
ExistingComments ==
    {<<>>, <<Tok("text")>>, <<Tok("text"), Sp, EvalOpen, Sp, EvalStr(Cp(20)), Close>>}

-----------------------------------------------------------------------------
(* The pure functions, each applied to inputs drawn from the sets above *)

NoCall == [op |-> "none"]

EvalCall ==
    /\ call = NoCall
    /\ \E info \in OracleInfos :
        call' = [op |-> "get_eval_and_score", info |-> info,
                 out |-> get_eval_and_score(info)]
    /\ UNCHANGED <<pipeVars, sessVars>>

DetectCall ==
    /\ call = NoCall
    /\ \E turn \in BOOLEAN : \E multi \in MultiOver(CandidateScores, turn) :
       \E move \in Moves :
        call' = [op |-> "detect_miss_or_only", multi |-> multi, move |-> move,
                 out |-> detect_miss_or_only(multi, move)]
    /\ UNCHANGED <<pipeVars, sessVars>>

ClassifyCall ==
    /\ call = NoCall
    /\ \E b \in Boards, prev_cp \in PrevCps, d \in SignedDrops, move \in Moves :
       \E pv \in {<<>>} \cup {<<m>> : m \in Moves} :
       \E multi \in MultiOver(ScenarioScores, Turn(b)) :
        LET info == [score |-> Cp(0), turn |-> Turn(b), pv |-> pv]
            curr_cp == prev_cp - d
        IN  call' = [op |-> "classify_move", board |-> b, prev_cp |-> prev_cp,
                     curr_cp |-> curr_cp, move |-> move,
                     best_sans |-> get_best_line_sans(info, b), multi |-> multi,
                     out |-> classify_move(prev_cp, curr_cp, move,
                                           get_best_line_sans(info, b), b, multi)]
    /\ UNCHANGED <<pipeVars, sessVars>>

\* classify_move on a move between two of the small-advantage evaluations
SmallAdvantageCall ==
    /\ call = NoCall
    /\ \E b \in Boards, prev_cp \in WinProbabilityCps, curr_cp \in WinProbabilityCps,
          move \in Moves :
       \E multi \in MultiOver({Cp(120)}, Turn(b)) :
        LET info == [score |-> Cp(0), turn |-> Turn(b), pv |-> <<1>>]
        IN  call' = [op |-> "classify_move", board |-> b, prev_cp |-> prev_cp,
                     curr_cp |-> curr_cp, move |-> move,
                     best_sans |-> get_best_line_sans(info, b), multi |-> multi,
                     out |-> classify_move(prev_cp, curr_cp, move,
                                           get_best_line_sans(info, b), b, multi)]
    /\ UNCHANGED <<pipeVars, sessVars>>

\* diff = move_eval - best_eval, both in White's view
ModelDiffs == SignedDrops \cup {c - p : p \in WinProbabilityCps, c \in WinProbabilityCps}

ModelClassifyCall ==
    /\ call = NoCall
    /\ \E w \in BOOLEAN, diff \in ModelDiffs :
        call' = [op |-> "ChessModel.classify_move", is_white_to_move |-> w,
                 diff |-> diff, out |-> ModelClassifyMove(w, diff)]
    /\ UNCHANGED <<pipeVars, sessVars>>

BuildCommentCall ==
    /\ call = NoCall
    /\ \E existing \in ExistingComments, prev_eval \in Evals, curr_eval \in Evals,
          label \in Labels, pv \in BestLines, b \in Boards :
        LET best_sans == get_best_line_sans([pv |-> pv], b)
        IN  call' = [op |-> "build_comment", pass |-> 1, existing |-> existing,
                     prev_eval |-> prev_eval, curr_eval |-> curr_eval,
                     label |-> label, best_sans |-> best_sans, board |-> b,
                     first |-> <<>>,
                     out |-> build_comment(existing, prev_eval, curr_eval, label,
                                           best_sans, b)]
    /\ UNCHANGED <<pipeVars, sessVars>>

\* A second analysis pass over the ply: the comment built before is the existing one
BuildCommentAgain ==
    /\ call.op = "build_comment"
    /\ call.pass = 1
    /\ call' = [call EXCEPT !.pass = 2, !.existing = call.out, !.first = call.out,
                            !.out = build_comment(call.out, call.prev_eval,
                                                  call.curr_eval, call.label,
                                                  call.best_sans, call.board)]
    /\ UNCHANGED <<pipeVars, sessVars>>

Return ==
    /\ call # NoCall
    /\ call' = NoCall
    /\ UNCHANGED <<pipeVars, sessVars>>

-----------------------------------------------------------------------------
(* analyse_games.py: main and analyse_pgn *)

Players == {"saintidle", "John", "Opponent"}
Headers ==
    {[White |-> "saintidle", Black |-> "Opponent"], [White |-> "Opponent", Black |-> "John"]}
Tracked == {"saintidle", "John"}

\* engine.analyse(board, limit): the single-line reply for a position
PipelineScores == {Cp(0), Cp(400), Cp(-400)}
Analyse(b) ==
    [score : PipelineScores, turn : {Turn(b)}, pv : {<<1>>}]

\* engine.analyse(board, limit, multipv=2) inside detect_miss_or_only
AnalyseMulti(b) ==
    {<<[score |-> Cp(120), turn |-> Turn(b), pv |-> <<1>>]>>,
     <<[score |-> Cp(650), turn |-> Turn(b), pv |-> <<1>>],
       [score |-> Cp(120), turn |-> Turn(b), pv |-> <<NumMoves>>]>>}

\* One engine.analyse call: the position queried and the number of lines asked for
Query(b, multipv) == [board |-> b, multipv |-> multipv]

Row(fen, ttc) == [position |-> fen, time_to_complete |-> ttc]

\* mover = white_player if temp_board.turn == chess.WHITE else black_player
Mover(g, temp_board) == IF Turn(temp_board) = WHITE THEN g.White ELSE g.Black

\* (mutant) the FEN after the move instead of the one before it
HarvestRowAfterMove(temp_board, b) == Row(Fen(b), HARVEST_TIME_TO_COMPLETE)

\* The row analyse_pgn records for a blunder: the FEN just before the move
HarvestRow(temp_board, b) == Row(Fen(temp_board), HARVEST_TIME_TO_COMPLETE)

\* (mutant) the evaluation held in the loop state is never replaced
InfoBeforeKept(before, info_after) == before

\* info_before = info_after, the last statement of the loop body
InfoBeforeNext(before, info_after) == info_after

Harvest(df, nags, g, temp_board, b) ==
    IF "NAG_BLUNDER" \in nags /\ Mover(g, temp_board) \in Tracked
    THEN Append(df, HarvestRow(temp_board, b))
    ELSE df

InitPipe ==
    /\ pc = "read"
    /\ count = 1
    /\ df_positions = <<>>
    /\ annotated_games = <<>>
    /\ game = None
    /\ board = <<>>
    /\ info_before = None
    /\ plies = <<>>
    /\ queries = <<>>

\* main reads the next game; analyse_pgn starts: headers, board, engine, first query
StartGame ==
    /\ pc = "read"
    /\ count <= NUM_GAMES_TO_ANALYSE
    /\ count <= MaxGames
    /\ \E h \in Headers : game' = h
    /\ board' = <<>>
    /\ \E info \in Analyse(<<>>) : info_before' = info
    /\ queries' = <<Query(<<>>, 1)>>
    /\ plies' = <<>>
    /\ pc' = "ply"
    /\ UNCHANGED <<count, df_positions, annotated_games, fnVars, sessVars>>

\* One iteration of the while loop of analyse_pgn
AnalysePly ==
    /\ pc = "ply"
    /\ Len(board) < MaxPlies
    /\ \E move \in Moves : \E info_after \in Analyse(Push(board, move)) :
       \E multi \in AnalyseMulti(board) :
        LET temp_board == board
            prev == get_eval_and_score(info_before)
            best_sans == get_best_line_sans(info_before, temp_board)
            curr == get_eval_and_score(info_after)
            cls == classify_move(prev.cp, curr.cp, move, best_sans, temp_board, multi)
            comment == build_comment(<<>>, prev.eval_str, curr.eval_str, cls.label,
                                     best_sans, temp_board)
        IN  /\ board' = Push(board, move)
            /\ df_positions' = Harvest(df_positions, cls.nags, game, temp_board,
                                        Push(board, move))
            /\ plies' = Append(plies, [move |-> move, prev_cp |-> prev.cp,
                                        curr_cp |-> curr.cp, nags |-> cls.nags,
                                        label |-> cls.label, comment |-> comment])
            /\ queries' = queries \o <<Query(Push(board, move), 1), Query(temp_board, 2)>>
            /\ info_before' = InfoBeforeNext(info_before, info_after)
    /\ UNCHANGED <<pc, count, game, annotated_games, fnVars, sessVars>>

\* node.variations is empty: engine.quit(), export, back in main: append, count += 1
FinishGame ==
    /\ pc = "ply"
    /\ annotated_games' = Append(annotated_games, Len(plies))
    /\ count' = count + 1
    /\ pc' = "read"
    /\ UNCHANGED <<df_positions, game, board, info_before, plies, queries, fnVars,
                   sessVars>>

\* A call inside analyse_pgn raises (engine.analyse: the engine died or answered
\* without "score" or "pv"); neither analyse_pgn nor main has a try statement, so
\* the exception leaves main: nothing is appended and nothing is written
AnalyseRaises ==
    /\ pc = "ply"
    /\ pc' = "raised"
    /\ UNCHANGED <<count, df_positions, annotated_games, game, board, info_before,
                   plies, queries, fnVars, sessVars>>

\* read_game returns None (or count passed the limit): write the PGN and the CSV
WriteOutput ==
    /\ pc = "read"
    /\ pc' = "written"
    /\ UNCHANGED <<count, df_positions, annotated_games, game, board, info_before,
                   plies, queries, fnVars, sessVars>>

-----------------------------------------------------------------------------
(* no_more_bad_chess_moves.py: ChessModel and ChessController *)

\* A position string of the CSV file: a FEN, possibly with blanks around it
SessionFens == {Fen(<<>>), Fen(<<1>>)}
PosStr(fen, pad) == [fen |-> fen, pad |-> pad]
StrStrip(str) == [str EXCEPT !.pad = FALSE]

\* positions_auto.csv as load_positions reads it: the rows analyse_games.main
\* harvested (repeats allowed), a position possibly with blanks around it
HarvestedPools ==
    UNION {[1..n -> {Row(PosStr(f, pad), HARVEST_TIME_TO_COMPLETE) :
                        f \in SessionFens, pad \in BOOLEAN}] : n \in 1..MaxPool}

\* chess.Board(fen), and the moves pushed on it since
LoadBoard(fen) == [fen |-> fen.fen, pushed |-> 0, over |-> FALSE]
SessionTurn(sb) ==
    IF sb.pushed % 2 = 0 THEN sb.fen.turn ELSE ~sb.fen.turn

\* DataFrame.sample(n=1, weights="time_to_complete"): the rows that can be drawn;
\* a negative weight or an all-zero column raises instead
Sum(f) ==
    LET S[i \in 0..Len(f)] == IF i = 0 THEN 0 ELSE S[i - 1] + f[i].time_to_complete
    IN  S[Len(f)]
WeightsValid(rows) ==
    /\ \A i \in 1..Len(rows) : rows[i].time_to_complete >= 0
    /\ Sum(rows) > 0
Drawable(rows) == {i \in 1..Len(rows) : rows[i].time_to_complete > 0}

\* sample_new_position: sample(...) raises ValueError, or any drawable row's
\* position, stripped, is the result
sample_new_position(rows) ==
    IF WeightsValid(rows)
    THEN [raises |-> FALSE, fens |-> {StrStrip(rows[i].position) : i \in Drawable(rows)}]
    ELSE [raises |-> TRUE, fens |-> {}]

\* The mask of record_result and the assignment through it
SetTimeToComplete(rows, fen, ttc) ==
    [i \in 1..Len(rows) |->
        IF StrStrip(rows[i].position) = StrStrip(fen)
        THEN [rows[i] EXCEPT !.time_to_complete = ttc]
        ELSE rows[i]]

\* save_positions: sort_values(by="time_to_complete", ascending=True); the order of
\* rows with equal values is whatever the sort leaves
Orders(n) == {p \in [1..n -> 1..n] : \A i, j \in 1..n : i # j => p[i] # p[j]}
Sorted(rows) ==
    \A i \in 1..(Len(rows) - 1) : rows[i].time_to_complete <= rows[i + 1].time_to_complete
SortedOrders(rows) ==
    {r \in {[i \in 1..Len(rows) |-> rows[p[i]]] : p \in Orders(Len(rows))} : Sorted(r)}

\* (mutant) the elapsed time whatever the outcome
TimeToCompleteAlwaysElapsed(elapsed, correct) == elapsed

\* ttc = elapsed if correct else DEFAULT_TIME_TO_COMPLETE
TimeToComplete(elapsed, correct) == IF correct THEN elapsed ELSE DEFAULT_TIME_TO_COMPLETE

\* record_result(fen, correct) at clock reading t: the pools it can leave behind
record_result(rows, fen, correct, start, t) ==
    SortedOrders(SetTimeToComplete(rows, fen, TimeToComplete(t - start, correct)))

\* The log after _refresh: cleared, then "FEN: ..." and "Evaluation: ..."
LogRefreshed == [last |-> "Evaluation:", tag |-> ""]

\* The log after _process_move: the "Your move ... {tag}" line, then the lines of
\* _record_time, _announce_state and _engine_move; "Game Over." stands for
\* whatever line is last when the game has ended
LogMove(tag, over) == [last |-> IF over THEN "Game Over." ELSE "Evaluation:", tag |-> tag]

\* (mutant) the rejected move leaves no line in the log
LogNothing(l) == l

\* self.view.log("Illegal move!!! Try again...")
LogIllegal(l) == [l EXCEPT !.last = "Illegal move!!! Try again..."]

\* (mutant) a result is recorded for every move
MayRecordAlways(recorded) == TRUE

\* _record_time: if not self.result_recorded
MayRecord(recorded) == ~recorded

NoResult == [called |-> FALSE, fen |-> PosStr(Fen(<<>>), FALSE), correct |-> FALSE,
             flip |-> FALSE]

InitSess ==
    /\ positions \in HarvestedPools
    /\ now \in 0..MaxClock
    /\ \E i \in Drawable(positions) :
        /\ position = StrStrip(positions[i].position)
        /\ sboard = LoadBoard(StrStrip(positions[i].position))
    /\ timer_start = now
    /\ result_recorded = FALSE
    /\ last_result = NoResult
    /\ selected_square = None
    /\ log = LogRefreshed

\* _refresh(fen): redraw, evaluate, start the timer, allow one result
\* next_position: sample_new_position, then _refresh
NextPosition ==
    /\ ~sample_new_position(positions).raises
    /\ \E fen \in sample_new_position(positions).fens :
        /\ position' = fen
        /\ sboard' = LoadBoard(fen)
    /\ selected_square' = None
    /\ log' = LogRefreshed
    /\ timer_start' = now
    /\ result_recorded' = FALSE
    /\ UNCHANGED <<positions, now, last_result, fnVars, pipeVars>>

\* next_position when sample(...) raises ValueError (a negative weight, or weights
\* that sum to zero): the handler ends before _refresh, nothing is assigned
NextPositionRaises ==
    /\ sample_new_position(positions).raises
    /\ UNCHANGED vars

\* reload_position: load_position_to_board(self.position), then _refresh
ReloadPosition ==
    /\ sboard' = LoadBoard(position)
    /\ selected_square' = None
    /\ log' = LogRefreshed
    /\ timer_start' = now
    /\ result_recorded' = FALSE
    /\ UNCHANGED <<positions, position, now, last_result, fnVars, pipeVars>>

\* on_click with no square selected, on a square that holds a piece
SelectSquare ==
    /\ selected_square = None
    /\ selected_square' = "sq"
    /\ UNCHANGED <<positions, position, sboard, timer_start, now, result_recorded,
                   last_result, log, fnVars, pipeVars>>

\* on_click with a square selected, the two squares forming no legal move (every
\* move once the game is over): the notice is logged, the selection cleared
IllegalMove ==
    /\ selected_square # None
    /\ log' = LogIllegal(log)
    /\ selected_square' = None
    /\ UNCHANGED <<positions, position, sboard, timer_start, now, result_recorded,
                   last_result, fnVars, pipeVars>>

\* on_click completing a legal move: _process_move = _log_player_move, _record_time,
\* push, _engine_move.  diff is the move's evaluation minus the best move's.
PlayerMove ==
    /\ selected_square # None
    /\ ~sboard.over
    /\ sboard.pushed < MaxPushed
    /\ \E diff \in {0, BLUNDER_THRESHOLD - 1, 1 - BLUNDER_THRESHOLD} :
       \E over_after_player \in BOOLEAN, over_after_engine \in BOOLEAN :
        LET tag == ModelClassifyMove(SessionTurn(sboard), diff)
            correct == tag = "Good"
            over == over_after_player \/ over_after_engine
        IN  /\ IF MayRecord(result_recorded)
               THEN /\ positions' \in record_result(positions, position, correct,
                                                     timer_start, now)
                    /\ last_result' = [called |-> TRUE, fen |-> position,
                                        correct |-> correct,
                                        flip |-> ~last_result.flip]
               ELSE UNCHANGED <<positions, last_result>>
            /\ result_recorded' = TRUE
            /\ log' = LogMove(tag, over)
            /\ selected_square' = None
            /\ sboard' = IF over_after_player
                          THEN [sboard EXCEPT !.pushed = @ + 1, !.over = TRUE]
                          ELSE [sboard EXCEPT !.pushed = @ + 2, !.over = over_after_engine]
    /\ UNCHANGED <<position, timer_start, now, fnVars, pipeVars>>

\* Time passes
Tick ==
    /\ now < MaxClock
    /\ now' = now + 1
    /\ UNCHANGED <<positions, position, sboard, timer_start, result_recorded,
                   last_result, selected_square, log, fnVars, pipeVars>>

\* time.time() is the wall clock: it can be set back between two readings
ClockSetBack ==
    /\ now > 0
    /\ now' = now - 1
    /\ UNCHANGED <<positions, position, sboard, timer_start, result_recorded,
                   last_result, selected_square, log, fnVars, pipeVars>>

-----------------------------------------------------------------------------
(* Specifications *)

CallsOff == call = NoCall
PipeOff == InitPipe
SessOff ==
    /\ positions = <<>>
    /\ position = None
    /\ sboard = None
    /\ timer_start = 0
    /\ now = 0
    /\ result_recorded = FALSE
    /\ last_result = NoResult
    /\ selected_square = None
    /\ log = LogRefreshed

\* analyse_games.main on a file of games
InitBatch == InitPipe /\ CallsOff /\ SessOff
NextBatch == StartGame \/ AnalysePly \/ FinishGame \/ AnalyseRaises \/ WriteOutput
SpecBatch == InitBatch /\ [][NextBatch]_vars

\* one call of analyse_pgn, on an empty pool or on one an earlier game added to
InitGame ==
    /\ pc = "ply"
    /\ count = 1
    /\ df_positions \in {<<>>, <<HarvestRow(<<>>, <<1>>)>>}
    /\ annotated_games = <<>>
    /\ game \in Headers
    /\ board = <<>>
    /\ info_before \in Analyse(<<>>)
    /\ plies = <<>>
    /\ queries = <<Query(<<>>, 1)>>
    /\ CallsOff /\ SessOff
NextGame == AnalysePly \/ FinishGame \/ AnalyseRaises
SpecGame == InitGame /\ [][NextGame]_vars

\* a practice session on a harvested pool
InitSession == InitSess /\ CallsOff /\ PipeOff
NextSession ==
    \/ NextPosition \/ NextPositionRaises \/ ReloadPosition
    \/ SelectSquare \/ IllegalMove \/ PlayerMove
    \/ Tick \/ ClockSetBack
SpecSession == InitSession /\ [][NextSession]_vars

\* the pure functions on bounded inputs
InitCalls == CallsOff /\ PipeOff /\ SessOff
NextCalls ==
    \/ EvalCall \/ DetectCall \/ ClassifyCall \/ SmallAdvantageCall \/ ModelClassifyCall
    \/ BuildCommentCall \/ BuildCommentAgain \/ Return
SpecCalls == InitCalls /\ [][NextCalls]_vars

-----------------------------------------------------------------------------
(* Claims *)

\* C1: after record_result(fen, correct), every row of the pool whose position
\* string equals fen holds DEFAULT_TIME_TO_COMPLETE (300) when correct is false,
\* whatever the clock readings, and exactly the time elapsed since the latest
\* start_timer (the clock reading at the call minus the reading at start_timer)
\* when correct is true.
C1_RecordResultSetsStatistic ==
    [][last_result' # last_result =>
        \A i \in 1..Len(positions') :
            positions'[i].position = last_result'.fen =>
                positions'[i].time_to_complete =
                    IF last_result'.correct THEN now - timer_start ELSE 300]_vars

\* C1 witness: a successful attempt that took 1 clock unit has just been recorded
\* in a pool that also holds a row of another position string
C1_Witness ==
    /\ last_result.called
    /\ last_result.correct
    /\ result_recorded
    /\ now - timer_start = 1
    /\ \E i, j \in 1..Len(positions) :
        /\ positions[i].position = last_result.fen
        /\ positions[i].time_to_complete = 1
        /\ positions[j].position # last_result.fen

\* C2: in every reachable state of the pool, after any harvest and any record_result,
\* every row's difficulty statistic is strictly positive.
C2_StatisticStrictlyPositive ==
    \A i \in 1..Len(positions) : positions[i].time_to_complete > 0

\* C3: after any sequence of harvests over the plies of a game and the games of a
\* batch, the harvested pool holds at most one row per distinct position string.
C3_OneRowPerPosition ==
    \A i, j \in 1..Len(df_positions) :
        i # j => df_positions[i].position # df_positions[j].position

\* C4: each iteration of the analyse_pgn loop appends the row (position before the
\* move, 300) to the pool if and only if the ply is labelled Blunder and the player
\* who made the move (the White header when White was to move before the move,
\* else the Black header) is tracked; otherwise the pool is left as it was.
C4_HarvestIffTrackedBlunder ==
    [][Len(plies') = Len(plies) + 1 =>
        LET ply == plies'[Len(plies')]
            before == board
            mover == IF Len(before) % 2 = 0 THEN game.White ELSE game.Black
            blunder == \E k \in 1..Len(ply.label) : ply.label[k] = Tok("Blunder.")
        IN  IF blunder /\ mover \in {"saintidle", "John"}
            THEN df_positions' =
                    Append(df_positions,
                           [position |-> Fen(before), time_to_complete |-> 300])
            ELSE df_positions' = df_positions]_vars

\* C4 witness: Black, a tracked player, blundered on the second ply and the position
\* before that move (Black to move) was appended
C4_Witness ==
    /\ Len(plies) = 2
    /\ "NAG_BLUNDER" \in plies[2].nags
    /\ game.Black = "John"
    /\ df_positions # <<>>
    /\ df_positions[Len(df_positions)].position = Fen(SubSeq(board, 1, 1))
    /\ df_positions[Len(df_positions)].position.turn = BLACK

\* The severity a label carries, and the order Good < Inaccuracy < Mistake < Blunder
Has(label, text) == \E k \in 1..Len(label) : label[k] = Tok(text)
SeverityOf(label) ==
    IF Has(label, "Blunder.") THEN "Blunder"
    ELSE IF Has(label, "Mistake.") THEN "Mistake"
    ELSE IF Has(label, "Inaccuracy.") THEN "Inaccuracy"
    ELSE "Good"
Rank(sev) ==
    CASE sev = "Good" -> 0 [] sev = "Inaccuracy" -> 1 [] sev = "Mistake" -> 2
      [] sev = "Blunder" -> 3

\* C5 as stated: analyse_games.classify_move labels by the centipawn difference d
\* between the before and after scores: d > 300 Blunder, 100 < d <= 300 Mistake,
\* 66 < d <= 100 Inaccuracy, d <= 66 no severity label.
C5_SpecThresholds ==
    call.op = "classify_move" =>
        LET d == Abs(call.prev_cp - call.curr_cp)
        IN  SeverityOf(call.out.label) =
                IF d > 300 THEN "Blunder"
                ELSE IF d > 100 THEN "Mistake"
                ELSE IF d > 66 THEN "Inaccuracy"
                ELSE "Good"

\* C5 amended: with d = |prev_cp - curr_cp|: d > 280 gives Blunder (NAG_BLUNDER),
\* 170 < d <= 280 Mistake (NAG_MISTAKE), 80 < d <= 170 Inaccuracy
\* (NAG_DUBIOUS_MOVE), d <= 80 no severity label and no NAG.
C5_CodeThresholds ==
    call.op = "classify_move" =>
        LET d == Abs(call.prev_cp - call.curr_cp)
        IN  /\ SeverityOf(call.out.label) =
                    IF d > 280 THEN "Blunder"
                    ELSE IF d > 170 THEN "Mistake"
                    ELSE IF d > 80 THEN "Inaccuracy"
                    ELSE "Good"
            /\ call.out.nags =
                    IF d > 280 THEN {"NAG_BLUNDER"}
                    ELSE IF d > 170 THEN {"NAG_MISTAKE"}
                    ELSE IF d > 80 THEN {"NAG_DUBIOUS_MOVE"}
                    ELSE {}

\* C5 witness: a difference of exactly 280 was classified, and labelled Mistake
C5_Witness ==
    /\ call.op = "classify_move"
    /\ Abs(call.prev_cp - call.curr_cp) = 280
    /\ SeverityOf(call.out.label) = "Mistake"

\* C6: for both colours, a ply after which the score is at least as favourable to
\* the player who made the move as it was before carries no Blunder, Mistake or
\* Inaccuracy label and no NAG (and so is not harvested).
C6_NoSeverityWithoutDrop ==
    \A k \in 1..Len(plies) :
        LET gain == IF k % 2 = 1
                    THEN plies[k].curr_cp - plies[k].prev_cp
                    ELSE plies[k].prev_cp - plies[k].curr_cp
        IN  gain >= 0 => plies[k].nags = {} /\ SeverityOf(plies[k].label) = "Good"

RelativeCp(s) ==
    IF s.kind = "cp" THEN s.v ELSE IF s.v > 0 THEN 10000 ELSE -10000

\* C8: given the oracle's top two candidates, detect_miss_or_only returns
\* 'Only move' when the top candidate's score exceeds the second's by more than the
\* Blunder threshold and the played move is the top candidate's first move, 'Miss'
\* when it exceeds it and the played move is another, and neither otherwise; so
\* candidates scoring +650 and +120 with the top one played give 'Only move'.
C8_GapDecidesOnlyMoveOrMiss ==
    (call.op = "detect_miss_or_only" /\ Len(call.multi) = 2) =>
        LET gap == RelativeCp(call.multi[1].score) - RelativeCp(call.multi[2].score)
        IN  call.out =
                IF gap > -BLUNDER_THRESHOLD
                THEN IF call.move = call.multi[1].pv[1] THEN OnlyMoveLabel ELSE MissLabel
                ELSE <<>>

\* C9: on a forced-mate score get_eval_and_score returns 10000 when White has the
\* mate and -10000 when Black has it, for every mate distance the oracle reports,
\* distance 0 (the side to move is already checkmated) included.
C9_MateSaturatesWithSign ==
    (call.op = "get_eval_and_score" /\ call.info.score.kind = "mate") =>
        LET n == call.info.score.v
            white_mates == IF call.info.turn = WHITE THEN n > 0 ELSE n <= 0
        IN  call.out.cp = IF white_mates THEN 10000 ELSE -10000

\* C10: build_comment applied to its own output, with the same evaluations, label
\* and best line, yields the comment it yielded the first time.
C10_BuildCommentIdempotent ==
    (call.op = "build_comment" /\ call.pass = 2) => call.out = call.first

\* Whether the tokens of sub occur in s, in order and next to each other
IsInfix(sub, s) ==
    \E i \in 0..(Len(s) - Len(sub)) : \A k \in 1..Len(sub) : s[i + k] = sub[k]

\* C11: for every ply whose played move is not the first move of the principal
\* variation the oracle gave for the position before the move, the comment set on
\* the ply contains the evaluation before the move, the evaluation after it and
\* the rendered principal variation, whatever the label is (a ply with no severity
\* label included).
C11_CommentHasEvalsAndLine ==
    [][Len(plies') = Len(plies) + 1 =>
        LET ply == plies'[Len(plies')]
            before == get_eval_and_score(info_before).eval_str
            after == get_eval_and_score(info_before').eval_str
            line == get_best_line_sans(info_before, board)
        IN  (line # <<>> /\ ply.move # parse_san(board, line[1])) =>
                /\ \E i \in 1..Len(ply.comment) : ply.comment[i] = before
                /\ \E i \in 1..Len(ply.comment) : ply.comment[i] = after
                /\ IsInfix(format_variation_text(line, board), ply.comment)]_vars

\* The single-line queries among the engine.analyse calls of a game
SingleLine(q) == q.multipv = 1

\* C12: in the analyse_pgn loop the starting position is evaluated exactly once,
\* before any move, and every position after a move exactly once by a single-line
\* query, in game order; for every ply k >= 2 the evaluation before ply k used to
\* classify it is the evaluation obtained after ply k-1, and the evaluation held
\* for the next ply is the one obtained after the last ply; every mainline ply
\* played so far carries exactly one comment, in game order.
C12_EvaluationsChained ==
    /\ SelectSeq(queries, SingleLine) =
            [i \in 1..(Len(board) + 1) |-> [board |-> SubSeq(board, 1, i - 1), multipv |-> 1]]
    /\ \A k \in 2..Len(plies) : plies[k].prev_cp = plies[k - 1].curr_cp
    /\ plies # <<>> => get_eval_and_score(info_before).cp = plies[Len(plies)].curr_cp
    /\ Len(plies) = Len(board)
    /\ \A k \in 1..Len(plies) : plies[k].move = board[k]

\* C12 witness: two plies were analysed, the evaluation changed with each of them
\* (0, then +4.00, then -4.00) and the game has been closed
C12_Witness ==
    /\ pc = "read"
    /\ Len(plies) = 2
    /\ plies[1].prev_cp = 0
    /\ plies[1].curr_cp = 400
    /\ plies[2].prev_cp = 400
    /\ plies[2].curr_cp = -400
    /\ Len(queries) = 5

\* C13: when main processes several games and one of them fails, only that game is
\* aborted: the step that abandons a game without an annotation hands control back
\* to main's reading loop with the annotations and the harvested positions
\* collected so far kept, so the other games are analysed and the output written.
C13_FailureAbortsOnlyThatGame ==
    [][(pc = "ply" /\ pc' # "ply" /\ Len(annotated_games') = Len(annotated_games)) =>
        /\ pc' = "read"
        /\ annotated_games' = annotated_games
        /\ df_positions' = df_positions]_vars

\* C14: in ChessController.on_click, when the second clicked square forms a move
\* that is not legal (a click with a square selected that clears the selection,
\* leaves the board as it was and is no new presentation), the move is rejected:
\* the position, the pool and its statistics, the result_recorded flag and the
\* timer are unchanged, no result is recorded, the 'Illegal move' notice is the
\* line logged, and the selection is cleared so that another move can be entered.
C14_IllegalMoveRejected ==
    [][(/\ selected_square # "None"
        /\ selected_square' = "None"
        /\ sboard' = sboard
        /\ log' # [last |-> "Evaluation:", tag |-> ""]) =>
            /\ positions' = positions
            /\ position' = position
            /\ result_recorded' = result_recorded
            /\ timer_start' = timer_start
            /\ last_result' = last_result
            /\ log'.last = "Illegal move!!! Try again..."
            /\ log'.tag = log.tag]_vars

\* C14 witness: an illegal move was just rejected while the attempt was running
\* (the clock has advanced since the presentation, no result recorded yet)
C14_Witness ==
    /\ log.last = "Illegal move!!! Try again..."
    /\ selected_square = "None"
    /\ ~result_recorded
    /\ sboard.pushed = 0
    /\ now > timer_start

\* C15: ChessModel.sample_new_position, on any non-empty pool, returns a position
\* of a row of the pool whose statistic is strictly positive; every such row can be
\* returned and a row with statistic 0 never is.
C15_SampleReturnsPositiveRow ==
    positions # <<>> =>
        LET out == sample_new_position(positions)
            positive == {i \in 1..Len(positions) : positions[i].time_to_complete > 0}
        IN  /\ ~out.raises
            /\ out.fens # {}
            /\ out.fens = {[positions[i].position EXCEPT !.pad = FALSE] : i \in positive}

\* C17: between two consecutive presentations of a position (each _refresh, by
\* next_position or reload_position) record_result is called at most once: only
\* the first legal move played after the presentation updates the pool, for the
\* presented position and with success exactly when that move is classified Good;
\* later moves of the presentation leave the pool unchanged; only a presentation
\* allows a result again.
C17_OneResultPerPresentation ==
    [][/\ (positions' # positions \/ last_result' # last_result) =>
            /\ ~result_recorded
            /\ result_recorded'
            /\ sboard'.pushed > sboard.pushed
            /\ last_result'.called
            /\ last_result'.flip # last_result.flip
            /\ last_result'.fen = position
            /\ last_result'.correct = (log'.tag = "Good")
       /\ sboard'.pushed > sboard.pushed =>
            /\ result_recorded'
            /\ result_recorded => (positions' = positions /\ last_result' = last_result)
            /\ ~result_recorded => last_result' # last_result
       /\ (result_recorded /\ ~result_recorded') =>
            /\ sboard'.pushed = 0
            /\ timer_start' = now
            /\ log' = [last |-> "Evaluation:", tag |-> ""]]_vars

\* C17 witness: in one presentation the first move was Good and recorded as a
\* success, the second move was a Blunder, and the row still holds the time of the
\* first move
C17_Witness ==
    /\ sboard.pushed = 4
    /\ result_recorded
    /\ last_result.called
    /\ last_result.correct
    /\ last_result.fen = position
    /\ log.tag = "Blunder"
    /\ \E i \in 1..Len(positions) :
        /\ positions[i].position = position
        /\ positions[i].time_to_complete # 300

\* The win probability of White, in units of 1/10000, at an evaluation of cp
\* centipawns in White's view: 1 / (1 + exp(-cp / K)) at K = 110, the middle of the
\* range of the scale constant; 54 gives 0.62 and -93 gives 0.30
WinProbability ==
    [cp \in {54, -93, -54, 93} |->
        CASE cp = 54 -> 6203 [] cp = -93 -> 3004 [] cp = -54 -> 3797 [] cp = 93 -> 6996]

\* The label of the win-probability policy for a move of the given colour between
\* two evaluations in White's view
WinProbabilityLabel(white, prev_cp, curr_cp) ==
    LET before == IF white THEN WinProbability[prev_cp] ELSE 10000 - WinProbability[prev_cp]
        after == IF white THEN WinProbability[curr_cp] ELSE 10000 - WinProbability[curr_cp]
        drop == after - before
    IN  IF drop <= -2200 THEN "Blunder"
        ELSE IF drop <= -1500 THEN "Mistake"
        ELSE IF drop <= -800 THEN "Inaccuracy"
        ELSE "Good"

\* C16: win-probability policy.  Both classifiers label a move by the drop of the
\* mover's win probability p_after - p_before: drop <= -0.22 Blunder, <= -0.15
\* Mistake, <= -0.08 Inaccuracy, else Good (no severity label); in particular a
\* move by White from 0.62 to 0.30 is labelled Blunder.
C16_WinProbabilityPolicy ==
    /\ (/\ call.op = "classify_move"
        /\ call.prev_cp \in DOMAIN WinProbability
        /\ call.curr_cp \in DOMAIN WinProbability) =>
            SeverityOf(call.out.label) =
                WinProbabilityLabel(Len(call.board) % 2 = 0, call.prev_cp, call.curr_cp)
    /\ call.op = "ChessModel.classify_move" =>
        \A p \in DOMAIN WinProbability, c \in DOMAIN WinProbability :
            c - p = call.diff =>
                call.out = WinProbabilityLabel(call.is_white_to_move, p, c)

\* C18: for every ply and every pair of oracle responses (the single-line one held
\* in the loop state and the two-candidate one of detect_miss_or_only), the label
\* of analyse_games.classify_move never contains both 'Miss' and 'Best move', and
\* contains 'Best move' whenever it contains 'Only move'.
C18_SpecialLabelsAgree ==
    call.op = "classify_move" =>
        /\ ~(Has(call.out.label, "Miss.") /\ Has(call.out.label, "Best move."))
        /\ Has(call.out.label, "Only move.") => Has(call.out.label, "Best move.")

=============================================================================
